---- MODULE Spec2Model ----
(***************************************************************************)
(* Model of the EPUB conversion route (POST /api/convert): the handler     *)
(* that receives uploaded EPUB archives, converts names and text entries   *)
(* with opencc.simplifiedToTaiwan, patches the .opf language tag, rebuilds *)
(* each archive with JSZip and bundles the results in an outer zip.        *)
(*                                                                         *)
(* A string is a sequence of one-character strings; a character outside    *)
(* ASCII is written by its code point ("u4E66"), a byte outside ASCII by   *)
(* its value ("xE4").  A JSZip instance is the ordered list of its         *)
(* `files` object (insertion order, which is also the order in which       *)
(* generateAsync writes the entries).                                      *)
(*                                                                         *)
(* The page that sends the requests (EPUBConverter) is modelled by its     *)
(* state record `page` and the specification SpecPage.                     *)
(***************************************************************************)
EXTENDS Integers, Sequences, FiniteSets, TLC

VARIABLES
    uploadedFiles,  \* formData.getAll('file'): the request's files, in order
    pc,             \* position of the POST handler
    response,       \* what POST returned ([status |-> 0] while it runs)
    outerZip,       \* the outer JSZip
    task,           \* task[i]: position of the per-file callback i
    outputZip,      \* outputZip[i]: the JSZip built for file i
    etask,          \* etask[i][j]: position of the per-entry callback j of file i
    call,           \* a single call of a pure step (SpecClassify, SpecPatch)
    formMode,       \* the request's 'conversionMode' field, as the page appends it
    page            \* the state of the page component (EPUBConverter)

vars == <<uploadedFiles, pc, response, outerZip, task, outputZip, etask, call,
          formMode, page>>

-----------------------------------------------------------------------------
(* Bounds of the model. *)

\* Entries per archive, for a request with one file.
MaxEntries == 3
\* Files per request.
MaxBatch == 2
\* Pieces concatenated into a text handed to the language-tag patch.
MaxPieces == 3

\* The page: files in the list and in one selection or drop, firings of
\* the progress interval within one submit, timers that new timers are
\* added to.
MaxFiles == 2
MaxTicks == 1
MaxTimers == 1

-----------------------------------------------------------------------------
(* Strings. *)

UpperCase == <<"A","B","C","D","E","F","G","H","I","J","K","L","M",
               "N","O","P","Q","R","S","T","U","V","W","X","Y","Z">>
LowerCase == <<"a","b","c","d","e","f","g","h","i","j","k","l","m",
               "n","o","p","q","r","s","t","u","v","w","x","y","z">>

\* String.prototype.toLowerCase, on the characters of the model.
LowerOf ==
    [c \in {UpperCase[u] : u \in 1..Len(UpperCase)} |->
        LowerCase[CHOOSE u \in 1..Len(UpperCase) : UpperCase[u] = c]]

toLowerCase(s) ==
    [k \in 1..Len(s) |-> IF s[k] \in DOMAIN LowerOf THEN LowerOf[s[k]] ELSE s[k]]

\* String.prototype.lastIndexOf(c), 1-based; 0 when c does not occur.
lastIndexOf(s, c) ==
    IF \E k \in 1..Len(s) : s[k] = c
    THEN CHOOSE k \in 1..Len(s) : s[k] = c /\ \A m \in (k+1)..Len(s) : s[m] # c
    ELSE 0

\* String.prototype.indexOf(pat), 1-based; 0 when pat does not occur.
indexOf(s, pat) ==
    LET hits == {k \in 1..(Len(s) - Len(pat) + 1) : SubSeq(s, k, k + Len(pat) - 1) = pat}
    IN  IF hits = {} THEN 0 ELSE CHOOSE k \in hits : \A m \in hits : k <= m

\* A variant of replace that rewrites every occurrence (String.prototype.replaceAll).
RECURSIVE replaceEvery(_, _, _)
replaceEvery(s, pat, rep) ==
    LET at == indexOf(s, pat)
    IN  IF at = 0 THEN s
        ELSE SubSeq(s, 1, at - 1) \o rep
             \o replaceEvery(SubSeq(s, at + Len(pat), Len(s)), pat, rep)

\* String.prototype.replace(pat, rep) with a string pattern: the first
\* occurrence only.
replace(s, pat, rep) ==
    LET at == indexOf(s, pat)
    IN  IF at = 0 THEN s
        ELSE SubSeq(s, 1, at - 1) \o rep \o SubSeq(s, at + Len(pat), Len(s))

-----------------------------------------------------------------------------
(* node-opencc: simplifiedToTaiwan, on the characters of the model          *)
(* (U+4E66 -> U+66F8, U+56FD -> U+570B; every other character is kept).     *)

simplifiedToTaiwanChar(c) ==
    CASE c = "u4E66" -> "u66F8"
      [] c = "u56FD" -> "u570B"
      [] OTHER -> c

simplifiedToTaiwan(s) == [k \in 1..Len(s) |-> simplifiedToTaiwanChar(s[k])]

convertContent(content) == simplifiedToTaiwan(content)

-----------------------------------------------------------------------------
(* UTF-8, as JSZip's async('text') decodes and generateAsync encodes.       *)

Utf8Table ==
    << <<"u4E66", <<"xE4","xB9","xA6">> >>,
       <<"u66F8", <<"xE6","x9B","xB8">> >>,
       <<"u56FD", <<"xE5","x9B","xBD">> >>,
       <<"u570B", <<"xE5","x9C","x8B">> >>,
       <<"uFFFD", <<"xEF","xBF","xBD">> >> >>

\* Bytes of the model that are not ASCII.
HighBytes == {"xE4","xB9","xA6","xE6","x9B","xB8","xE5","xBD","x9C","x8B",
              "xEF","xBF","xFF","x89"}

\* The concatenation of a sequence of sequences.
RECURSIVE Flatten(_)
Flatten(ss) ==
    IF Len(ss) = 0 THEN <<>>
    ELSE IF Len(ss) = 1 THEN ss[1]
    ELSE LET h == Len(ss) \div 2
         IN  Flatten(SubSeq(ss, 1, h)) \o Flatten(SubSeq(ss, h + 1, Len(ss)))

utf8encodeChar(c) ==
    LET rows == {r \in 1..Len(Utf8Table) : Utf8Table[r][1] = c}
    IN  IF rows = {} THEN <<c>> ELSE Utf8Table[CHOOSE r \in rows : TRUE][2]

utf8encode(s) == Flatten([k \in 1..Len(s) |-> utf8encodeChar(s[k])])

\* The rows of the table whose bytes stand at position k of b.
utf8At(b, k) ==
    {r \in 1..Len(Utf8Table) :
        /\ k >= 1
        /\ k + 2 <= Len(b)
        /\ SubSeq(b, k, k + 2) = Utf8Table[r][2]}

\* A lead byte with its continuation bytes decodes to its character; any
\* other byte outside ASCII decodes to U+FFFD.
utf8decode(b) ==
    Flatten([k \in 1..Len(b) |->
        IF utf8At(b, k) # {} THEN <<Utf8Table[CHOOSE r \in utf8At(b, k) : TRUE][1]>>
        ELSE IF utf8At(b, k - 1) # {} \/ utf8At(b, k - 2) # {} THEN <<>>
        ELSE IF b[k] \in HighBytes THEN <<"uFFFD">>
        ELSE <<b[k]>>])

-----------------------------------------------------------------------------
(* JSZip (lib/object.js): fileAdd, folderAdd, file, folder, generateAsync.  *)

forceTrailingSlash(path) ==
    IF path # <<>> /\ path[Len(path)] = "/" THEN path ELSE path \o <<"/">>

parentFolder(path) ==
    LET p == IF path # <<>> /\ path[Len(path)] = "/"
             THEN SubSeq(path, 1, Len(path) - 1) ELSE path
        lastSlash == lastIndexOf(p, "/")
    IN  IF lastSlash > 1 THEN SubSeq(p, 1, lastSlash - 1) ELSE <<>>

hasFile(files, name) == \E k \in 1..Len(files) : files[k].name = name

\* this.files[name] = object: a new key goes last, an existing key keeps
\* its place and takes the new value.
setFile(files, object) ==
    IF hasFile(files, object.name)
    THEN [k \in 1..Len(files) |->
             IF files[k].name = object.name THEN object ELSE files[k]]
    ELSE Append(files, object)

RECURSIVE fileAdd(_, _, _, _, _, _)
RECURSIVE folderAdd(_, _, _)

fileAdd(files, name0, data, dir, binary, createFolders) ==
    LET name == IF dir THEN forceTrailingSlash(name0) ELSE name0
        parent == parentFolder(name)
        withParent == IF createFolders /\ parent # <<>>
                      THEN folderAdd(files, parent, TRUE)
                      ELSE files
        empty == dir \/ Len(data) = 0
    IN  setFile(withParent,
                [name |-> name, dir |-> dir,
                 binary |-> (binary \/ empty),
                 data |-> IF empty THEN <<>> ELSE data])

folderAdd(files, name0, createFolders) ==
    LET name == forceTrailingSlash(name0)
    IN  IF hasFile(files, name) THEN files
        ELSE fileAdd(files, name, <<>>, TRUE, TRUE, createFolders)

\* zip.file(name, data, options); createFolders defaults to true.
file(files, name, data, binary) == fileAdd(files, name, data, FALSE, binary, TRUE)

\* zip.folder(name).
folder(files, name) == IF name = <<>> THEN files ELSE folderAdd(files, name, TRUE)

\* zip.generateAsync: the entries in the order of `files`; a string's
\* content is written UTF-8 encoded.
generateAsync(files) ==
    [k \in 1..Len(files) |->
        [name |-> files[k].name, dir |-> files[k].dir,
         data |-> IF files[k].binary THEN files[k].data ELSE utf8encode(files[k].data)]]

-----------------------------------------------------------------------------
(* The route's own steps. *)

targetExtensions ==
    << <<"h","t","m">>, <<"h","t","m","l">>, <<"x","h","t","m","l">>,
       <<"n","c","x">>, <<"o","p","f">> >>

includes(array, x) == \E k \in 1..Len(array) : array[k] = x

s_opf == <<"o","p","f">>

LangOpen  == <<"<","d","c",":","l","a","n","g","u","a","g","e",">">>
LangClose == <<"<","/","d","c",":","l","a","n","g","u","a","g","e",">">>
TagCN == LangOpen \o <<"z","h","-","C","N">> \o LangClose
TagTW == LangOpen \o <<"z","h","-","T","W">> \o LangClose

\* filename.split('.').pop(): what follows the last '.', the whole name
\* when it has none.
splitPop(filename) ==
    SubSeq(filename, lastIndexOf(filename, ".") + 1, Len(filename))

\* (filename.split('.').pop() as string).toLowerCase()
ext(filename) == toLowerCase(splitPop(filename))

\* The branch an entry takes: the folder branch, the text branch or the
\* binary copy.
classify(filename, dir) ==
    IF ~dir
    THEN IF includes(targetExtensions, ext(filename))
         THEN "TextTarget"
         ELSE "BinaryPassthrough"
    ELSE "Directory"

\* The patch applied to every occurrence of the tag.
patchLanguageEvery(tcContent, e) ==
    IF e = s_opf THEN replaceEvery(tcContent, TagCN, TagTW) ELSE tcContent

\* The patch without the test of the extension.
patchLanguageAlways(tcContent, e) == replace(tcContent, TagCN, TagTW)

\* if (ext === 'opf') tcContent = tcContent.replace(<zh-CN tag>, <zh-TW tag>)
patchLanguage(tcContent, e) ==
    IF e = s_opf THEN replace(tcContent, TagCN, TagTW) ELSE tcContent

\* The text branch: read as text, convert, patch, write as a string.
textBranch(files, filename, bytes) ==
    LET content == utf8decode(bytes)
        tcContent == patchLanguage(convertContent(content), ext(filename))
    IN  file(files, simplifiedToTaiwan(filename), tcContent, FALSE)

\* A binary branch that writes under the entry's own name.
binaryBranchKeepName(files, filename, bytes) ==
    file(files, filename, bytes, TRUE)

\* The binary branch: read as a buffer, write the buffer.
binaryBranch(files, filename, bytes) ==
    file(files, simplifiedToTaiwan(filename), bytes, TRUE)

\* What a file entry's callback does to outputZip once its read resolved.
writeEntry(files, entry) ==
    IF classify(entry.name, entry.dir) = "TextTarget"
    THEN textBranch(files, entry.name, entry.data)
    ELSE binaryBranch(files, entry.name, entry.data)

\* fileNames.map(...): each callback runs to its first await as map calls
\* it, so every folder entry is written here, in enumeration order, and
\* every file entry is left reading.
RECURSIVE startEntries(_, _)
startEntries(files, entries) ==
    IF entries = <<>> THEN files
    ELSE startEntries(
            IF Head(entries).dir
            THEN folder(files, simplifiedToTaiwan(Head(entries).name))
            ELSE files,
            Tail(entries))

s_dotEpub == <<".","e","p","u","b">>
s_converted == <<"-","c","o","n","v","e","r","t","e","d",".","e","p","u","b">>

\* uploadedFile.name.replace(/\.epub$/i, '')
originalBaseName(name) ==
    IF Len(name) >= Len(s_dotEpub)
       /\ toLowerCase(SubSeq(name, Len(name) - Len(s_dotEpub) + 1, Len(name))) = s_dotEpub
    THEN SubSeq(name, 1, Len(name) - Len(s_dotEpub))
    ELSE name

outputFileName(name) == simplifiedToTaiwan(originalBaseName(name)) \o s_converted

\* !uploadedFiles: the test without the length check.
noFilesUndefinedOnly(files) == FALSE

\* !uploadedFiles || uploadedFiles.length === 0
noFiles(files) == Len(files) = 0

-----------------------------------------------------------------------------
(* The requests of the model. *)

\* An entry of a loaded archive (zip.files[name]): its name, its dir flag,
\* its bytes, and whether its callback rejects (its read or its conversion
\* throws).
Entry(name, dir, data, bad) == [name |-> name, dir |-> dir, data |-> data, bad |-> bad]

E_dir  == Entry(<<"d","/">>, TRUE, <<>>, FALSE)
E_png  == Entry(<<"d","/","a",".","p","n","g">>, FALSE, <<"x89","P">>, FALSE)
E_binS == Entry(<<"u4E66",".","b","i","n">>, FALSE, <<"xE4","xB9","xA6">>, FALSE)
E_binT == Entry(<<"u66F8",".","b","i","n">>, FALSE, <<"x89">>, FALSE)
E_opf  == Entry(<<"b",".","o","p","f">>, FALSE,
                utf8encode(TagCN \o <<"u4E66">> \o TagCN), FALSE)
E_html == Entry(<<"c",".","H","T","M","L">>, FALSE,
                utf8encode(<<"u56FD">> \o TagCN) \o <<"xFF">>, FALSE)
E_bad  == Entry(<<"e",".","c","s","s">>, FALSE, <<"x">>, TRUE)
\* A file whose name has no '.' and spells a target extension.
E_bare == Entry(<<"o","p","f">>, FALSE, <<"xE4","xB9","xA6">>, FALSE)

EntryUniverse == {E_dir, E_png, E_binS, E_binT, E_opf, E_html, E_bad, E_bare}

\* Sequences of at most n distinct elements of S.
DistinctSeqs(S, n) ==
    UNION {{q \in [1..m -> S] : \A a, b \in 1..m : a # b => q[a] # q[b]} : m \in 0..n}

\* An uploaded File: its name and its content, which loads as a zip with
\* these entries or does not load at all.
File(name, valid, entries) == [name |-> name, valid |-> valid, entries |-> entries]

N_a == <<"a",".","e","p","u","b">>
N_s == <<"u4E66",".","e","p","u","b">>
N_t == <<"u66F8",".","E","P","U","B">>
N_zip == <<"a",".","z","i","p">>

\* One file with up to MaxEntries entries.
RichFiles ==
    {File(N_a, TRUE, q) : q \in DistinctSeqs(EntryUniverse, MaxEntries)}

\* The files of the requests with several files.
SmallFiles ==
    {File(n, FALSE, <<>>) : n \in {N_a, N_s, N_t}}
    \cup {File(n, TRUE, q) : n \in {N_a, N_s, N_t},
                             q \in {<<>>, <<E_binS>>, <<E_bad>>}}

\* A zip archive uploaded under a name with another extension.
OtherNameRequests ==
    {<<File(N_zip, TRUE, q)>> : q \in {<<>>, <<E_binS>>, <<E_opf>>}}

Requests ==
    {<<f>> : f \in RichFiles}
    \cup OtherNameRequests
    \cup UNION {[1..n -> SmallFiles] : n \in 0..MaxBatch}

Files == 1..Len(uploadedFiles)
EntriesOf(i) == 1..Len(uploadedFiles[i].entries)

NoZip == [created |-> FALSE, files |-> <<>>]
NewZip == [created |-> TRUE, files |-> <<>>]

NoCall == [op |-> "none"]

\* The two modes the page offers; 'sc-to-tc' is its initial selection.
ConversionModes == {"sc-to-tc", "tc-to-sc"}

\* The component's state after its first render (the useState initial values).
NoError == [kind |-> "null"]

\* With the state, the position of handleSubmit ("idle" when it is not
\* running), the `files` its closure holds, and the timers that are pending:
\* the progress intervals not cleared (and their firings within the
\* submit), the setError(null) timeouts and the setProgress(0) timeouts.
\* progress is a real number, and the progress interval adds to it
\* Math.random() * 3, any real of [0, 3).  The model keeps for it the bounds
\* lo <= progress < hi; with lo = hi the value is exactly lo, as it is after
\* setProgress(n) with a literal n.
exactly(n) == [lo |-> n, hi |-> n]

PageInit ==
    [files |-> <<>>, isUploading |-> FALSE, progress |-> exactly(0), error |-> NoError,
     success |-> FALSE, isDragging |-> FALSE, conversionMode |-> "sc-to-tc",
     submit |-> "idle", sent |-> <<>>, intervals |-> 0, ticks |-> 0,
     errorTimeouts |-> 0, progressTimeouts |-> 0]

\* a.download = files.length > 1 ? 'converted-files.zip'
\*                               : files[0].name.replace('.epub', '-converted.epub')
s_zipName ==
    <<"c","o","n","v","e","r","t","e","d","-","f","i","l","e","s",".","z","i","p">>

downloadName(names) ==
    IF Len(names) > 1 THEN s_zipName ELSE replace(names[1], s_dotEpub, s_converted)

\* const blob = await response.blob(): the body of the response, saved as it is.
blob(resp) == resp.body

\* The requests sent with the mode 'tc-to-sc': one file with one entry.
ModeRequests == {<<File(N_a, TRUE, <<e>>)>> : e \in EntryUniverse}

-----------------------------------------------------------------------------
(* The handler. *)

Init ==
    /\ \/ uploadedFiles \in Requests /\ formMode = "sc-to-tc"
       \/ uploadedFiles \in ModeRequests /\ formMode = "tc-to-sc"
    /\ page = [PageInit EXCEPT !.conversionMode = formMode]
    /\ pc = "formData"
    /\ response = [status |-> 0]
    /\ outerZip = NoZip
    /\ task = [i \in Files |-> "idle"]
    /\ outputZip = [i \in Files |-> NoZip]
    /\ etask = [i \in Files |-> [j \in EntriesOf(i) |-> "idle"]]
    /\ call = NoCall

\* No file in the form: 400, before anything else is done.
NoFileUploaded ==
    /\ pc = "formData"
    /\ noFiles(uploadedFiles)
    /\ response' = [status |-> 400, error |-> "No file uploaded."]
    /\ pc' = "done"
    /\ UNCHANGED <<uploadedFiles, outerZip, task, outputZip, etask, call, formMode, page>>

\* new JSZip() for the outer zip, then uploadedFiles.map: every file's
\* callback runs to its first await (uploadedFile.arrayBuffer()).
StartBatch ==
    /\ pc = "formData"
    /\ ~noFiles(uploadedFiles)
    /\ outerZip' = NewZip
    /\ task' = [i \in Files |-> "arrayBuffer"]
    /\ pc' = "awaitAll"
    /\ UNCHANGED <<uploadedFiles, response, outputZip, etask, call, formMode, page>>

\* await uploadedFile.arrayBuffer() resolves; JSZip.loadAsync starts.
ArrayBufferDone(i) ==
    /\ task[i] = "arrayBuffer"
    /\ task' = [task EXCEPT ![i] = "loadAsync"]
    /\ UNCHANGED <<uploadedFiles, pc, response, outerZip, outputZip, etask, call, formMode, page>>

\* JSZip.loadAsync rejects: the buffer is no zip.
LoadAsyncFail(i) ==
    /\ task[i] = "loadAsync"
    /\ ~uploadedFiles[i].valid
    /\ task' = [task EXCEPT ![i] = "rejected"]
    /\ UNCHANGED <<uploadedFiles, pc, response, outerZip, outputZip, etask, call, formMode, page>>

\* JSZip.loadAsync resolves: new JSZip() for the output, then
\* fileNames.map starts every entry's callback.
LoadAsyncDone(i) ==
    /\ task[i] = "loadAsync"
    /\ uploadedFiles[i].valid
    /\ outputZip' = [outputZip EXCEPT
                        ![i] = [created |-> TRUE,
                                files |-> startEntries(<<>>, uploadedFiles[i].entries)]]
    /\ etask' = [etask EXCEPT
                    ![i] = [j \in EntriesOf(i) |->
                               IF uploadedFiles[i].entries[j].dir THEN "done" ELSE "async"]]
    /\ task' = [task EXCEPT ![i] = "entries"]
    /\ UNCHANGED <<uploadedFiles, pc, response, outerZip, call, formMode, page>>

\* The callback of entry j of file i rejects: zipEntry.async(...) rejects
\* or the conversion throws.
AsyncFail(i, j) ==
    /\ etask[i][j] = "async"
    /\ uploadedFiles[i].entries[j].bad
    /\ etask' = [etask EXCEPT ![i][j] = "rejected"]
    /\ UNCHANGED <<uploadedFiles, pc, response, outerZip, task, outputZip, call, formMode, page>>

\* zipEntry.async(...) resolves for entry j of file i: the callback
\* converts and writes the entry.
AsyncDone(i, j) ==
    /\ etask[i][j] = "async"
    /\ ~uploadedFiles[i].entries[j].bad
    /\ outputZip' = [outputZip EXCEPT
                        ![i].files = writeEntry(@, uploadedFiles[i].entries[j])]
    /\ etask' = [etask EXCEPT ![i][j] = "done"]
    /\ UNCHANGED <<uploadedFiles, pc, response, outerZip, task, call, formMode, page>>

\* The inner Promise.all rejects: the file's callback throws.
EntriesRejected(i) ==
    /\ task[i] = "entries"
    /\ \E j \in EntriesOf(i) : etask[i][j] = "rejected"
    /\ task' = [task EXCEPT ![i] = "rejected"]
    /\ UNCHANGED <<uploadedFiles, pc, response, outerZip, outputZip, etask, call, formMode, page>>

\* A file callback that does not await the entry callbacks.
EntriesResolvedNoWait(i) ==
    /\ task[i] = "entries"
    /\ task' = [task EXCEPT ![i] = "generateAsync"]
    /\ UNCHANGED <<uploadedFiles, pc, response, outerZip, outputZip, etask, call, formMode, page>>

\* The inner Promise.all resolves; outputZip.generateAsync starts.
EntriesResolved(i) ==
    /\ task[i] = "entries"
    /\ \A j \in EntriesOf(i) : etask[i][j] = "done"
    /\ task' = [task EXCEPT ![i] = "generateAsync"]
    /\ UNCHANGED <<uploadedFiles, pc, response, outerZip, outputZip, etask, call, formMode, page>>

\* outputZip.generateAsync resolves: the converted archive goes into the
\* outer zip under its output name.
GenerateAsyncDone(i) ==
    /\ task[i] = "generateAsync"
    /\ outerZip' = [outerZip EXCEPT
                       !.files = file(@, outputFileName(uploadedFiles[i].name),
                                      generateAsync(outputZip[i].files), TRUE)]
    /\ task' = [task EXCEPT ![i] = "done"]
    /\ UNCHANGED <<uploadedFiles, pc, response, outputZip, etask, call, formMode, page>>

\* A handler that waits for every callback to settle (Promise.allSettled).
OuterResolvedSettled ==
    /\ pc = "awaitAll"
    /\ \A i \in Files : task[i] \in {"done", "rejected"}
    /\ pc' = "generateOuter"
    /\ UNCHANGED <<uploadedFiles, response, outerZip, task, outputZip, etask, call, formMode, page>>

\* The outer Promise.all resolves; outerZip.generateAsync starts.
OuterResolved ==
    /\ pc = "awaitAll"
    /\ \A i \in Files : task[i] = "done"
    /\ pc' = "generateOuter"
    /\ UNCHANGED <<uploadedFiles, response, outerZip, task, outputZip, etask, call, formMode, page>>

\* outerZip.generateAsync resolves: the zip is returned.
OuterGenerateDone ==
    /\ pc = "generateOuter"
    /\ response' = [status |-> 200, body |-> generateAsync(outerZip.files)]
    /\ pc' = "done"
    /\ UNCHANGED <<uploadedFiles, outerZip, task, outputZip, etask, call, formMode, page>>

\* The outer Promise.all rejects: catch, 500.
Catch ==
    /\ pc = "awaitAll"
    /\ \E i \in Files : task[i] = "rejected"
    /\ response' = [status |-> 500, error |-> "An error occurred during conversion."]
    /\ pc' = "done"
    /\ UNCHANGED <<uploadedFiles, outerZip, task, outputZip, etask, call, formMode, page>>

Next ==
    \/ NoFileUploaded
    \/ StartBatch
    \/ \E i \in Files : ArrayBufferDone(i)
    \/ \E i \in Files : LoadAsyncFail(i)
    \/ \E i \in Files : LoadAsyncDone(i)
    \/ \E i \in Files : \E j \in EntriesOf(i) : AsyncFail(i, j)
    \/ \E i \in Files : \E j \in EntriesOf(i) : AsyncDone(i, j)
    \/ \E i \in Files : EntriesRejected(i)
    \/ \E i \in Files : EntriesResolved(i)
    \/ \E i \in Files : GenerateAsyncDone(i)
    \/ OuterResolved
    \/ OuterGenerateDone
    \/ Catch

Spec == Init /\ [][Next]_vars

-----------------------------------------------------------------------------
(* The classification of one entry, called on its own. *)

Stems ==
    { <<>>, <<"a">>, <<"d","/","a">>, <<"a",".","b">>, <<"u4E66">>,
      <<"x",".","h","t","m","l","/","a">>,
      <<"o","p","f">>, <<"H","T","M","L">>, <<"n","c","x">>, <<"d","/","o","p","f">> }

Suffixes ==
    { <<>>, <<".">>, <<".","h","t","m">>, <<".","h","t","m","l">>, <<".","H","T","M","L">>,
      <<".","x","h","t","m","l">>, <<".","X","h","t","m","l">>, <<".","n","c","x">>,
      <<".","o","p","f">>, <<".","O","P","F">>, <<".","t","x","t">>,
      <<".","h","t","m","l","x">>, <<".","o","p","f",".","b","a","k">> }

Paths == {s \o e : s \in Stems, e \in Suffixes}

InitClassify ==
    /\ uploadedFiles = <<>>
    /\ formMode = "sc-to-tc"
    /\ page = PageInit
    /\ pc = "formData"
    /\ response = [status |-> 0]
    /\ outerZip = NoZip
    /\ task = <<>>
    /\ outputZip = <<>>
    /\ etask = <<>>
    /\ \E p \in Paths, d \in BOOLEAN :
          call = [op |-> "classify", path |-> p, dir |-> d, done |-> FALSE, ret |-> "none"]

ClassifyCall ==
    /\ call.op = "classify"
    /\ ~call.done
    /\ call' = [call EXCEPT !.done = TRUE, !.ret = classify(call.path, call.dir)]
    /\ UNCHANGED <<uploadedFiles, pc, response, outerZip, task, outputZip, etask, formMode, page>>

NextClassify == ClassifyCall

SpecClassify == InitClassify /\ [][NextClassify]_vars

-----------------------------------------------------------------------------
(* The language-tag patch of one converted text, called on its own. *)

TagLower == LangOpen \o <<"z","h","-","c","n">> \o LangClose

Pieces == {TagCN, TagTW, TagLower, LangOpen, <<"x">>}

Texts == UNION {{Flatten(q) : q \in [1..n -> Pieces]} : n \in 0..MaxPieces}

InitPatch ==
    /\ uploadedFiles = <<>>
    /\ formMode = "sc-to-tc"
    /\ page = PageInit
    /\ pc = "formData"
    /\ response = [status |-> 0]
    /\ outerZip = NoZip
    /\ task = <<>>
    /\ outputZip = <<>>
    /\ etask = <<>>
    /\ \E t \in Texts, e \in {s_opf, <<"n","c","x">>} :
          call = [op |-> "patch", text |-> t, ext |-> e, done |-> FALSE, ret |-> <<>>]

PatchCall ==
    /\ call.op = "patch"
    /\ ~call.done
    /\ call' = [call EXCEPT !.done = TRUE, !.ret = patchLanguage(call.text, call.ext)]
    /\ UNCHANGED <<uploadedFiles, pc, response, outerZip, task, outputZip, etask, formMode, page>>

NextPatch == PatchCall

SpecPatch == InitPatch /\ [][NextPatch]_vars

-----------------------------------------------------------------------------
(* The page (EPUBConverter): its handlers, its timers, and handleSubmit     *)
(* with the outcomes of its fetch.  The state is the record `page`; `call`  *)
(* holds what the last event did besides: its call of addFiles, or the      *)
(* download it started.                                                     *)
(* showFAQ and totalSize are display state that no handler reads.           *)

\* The error messages: the rejection of addFiles, and a text.
Rejected(n) == [kind |-> "rejected", n |-> n]
Message(text) == [kind |-> "message", text |-> text]

\* file.name.toLowerCase().endsWith('.epub')
endsWith(s, suffix) ==
    /\ Len(s) >= Len(suffix)
    /\ SubSeq(s, Len(s) - Len(suffix) + 1, Len(s)) = suffix

isEpubName(name) == endsWith(toLowerCase(name), s_dotEpub)

\* The names of the files a user picks or drops: one that ends in .EPUB
\* and one that does not end in .epub in any letter case.
N_txt == <<"a",".","t","x","t">>
PageNames == {N_t, N_txt}
Selections == DistinctSeqs(PageNames, MaxFiles)

\* addFiles without the filter: every selected file is added.
addFilesNoFilter(p, selectedFiles) ==
    IF Len(selectedFiles) > 0
    THEN [p EXCEPT !.files = @ \o selectedFiles, !.success = FALSE]
    ELSE p

\* addFiles(selectedFiles), on the state p.
addFiles(p, selectedFiles) ==
    LET validFiles == SelectSeq(selectedFiles, LAMBDA f : isEpubName(f))
        invalidFiles == SelectSeq(selectedFiles, LAMBDA f : ~isEpubName(f))
        p1 == IF Len(invalidFiles) > 0
              THEN [p EXCEPT !.error = Rejected(Len(invalidFiles)),
                             !.errorTimeouts = @ + 1]
              ELSE p
    IN  IF Len(validFiles) > 0
        THEN [p1 EXCEPT !.files = @ \o validFiles, !.success = FALSE]
        ELSE p1

\* The call of addFiles that the last event made.
AddCall(selectedFiles) == [op |-> "addFiles", selectedFiles |-> selectedFiles]

\* The route's variables, which the page does not touch.
route == <<uploadedFiles, pc, response, outerZip, task, outputZip, etask, formMode>>

\* The timers that are pending.
Timers(p) == p.intervals + p.errorTimeouts + p.progressTimeouts

\* The list and the timers stay within the bounds of the model.
WithinBounds(p) ==
    /\ Len(p.files) <= MaxFiles
    /\ Timers(p) <= MaxTimers

\* onChange of the file input (disabled while uploading).
HandleFileChange(selectedFiles) ==
    /\ ~page.isUploading
    /\ WithinBounds(addFiles(page, selectedFiles))
    /\ page' = addFiles(page, selectedFiles)
    /\ call' = AddCall(selectedFiles)
    /\ UNCHANGED route

HandleDragEnter ==
    /\ page' = [page EXCEPT !.isDragging = TRUE]
    /\ call' = NoCall
    /\ UNCHANGED route

HandleDragLeave ==
    /\ page' = [page EXCEPT !.isDragging = FALSE]
    /\ call' = NoCall
    /\ UNCHANGED route

\* onDrop of the drop zone, which is not disabled while uploading.
HandleDrop(selectedFiles) ==
    LET p == [page EXCEPT !.isDragging = FALSE]
    IN  /\ WithinBounds(addFiles(p, selectedFiles))
        /\ page' = IF Len(selectedFiles) > 0 THEN addFiles(p, selectedFiles) ELSE p
        /\ call' = IF Len(selectedFiles) > 0 THEN AddCall(selectedFiles) ELSE NoCall
        /\ UNCHANGED route

\* removeFile(index), index counted from 1 here (button disabled while uploading).
RemoveFile(index) ==
    /\ ~page.isUploading
    /\ index \in 1..Len(page.files)
    /\ page' = [page EXCEPT !.files =
                   SubSeq(@, 1, index - 1) \o SubSeq(@, index + 1, Len(@))]
    /\ call' = NoCall
    /\ UNCHANGED route

\* clearAllFiles (button disabled while uploading or with no file).
ClearAllFiles ==
    /\ ~page.isUploading
    /\ Len(page.files) > 0
    /\ page' = [page EXCEPT !.files = <<>>]
    /\ call' = NoCall
    /\ UNCHANGED route

\* The two mode cards.
SetConversionMode(mode) ==
    /\ page' = [page EXCEPT !.conversionMode = mode]
    /\ call' = NoCall
    /\ UNCHANGED route

\* setTimeout(() => setError(null), 5000) fires.
ErrorTimeout ==
    /\ page.errorTimeouts > 0
    /\ page' = [page EXCEPT !.error = NoError, !.errorTimeouts = @ - 1]
    /\ call' = NoCall
    /\ UNCHANGED route

\* setProgress(prev => { const newProgress = prev + Math.random() * 3;
\*                       return newProgress < 90 ? newProgress : prev; })
\* From prev >= 90 nothing changes.  From prev < 90 the result is newProgress
\* when that is below 90 and prev otherwise: any real from the lower bound
\* of prev up to, and without, the upper bound of prev plus 3, and below 90.
simulateProgress(prev) ==
    IF prev.lo >= 90 THEN prev
    ELSE [lo |-> prev.lo, hi |-> IF prev.hi + 3 < 90 THEN prev.hi + 3 ELSE 90]

\* Math.round(progress): the percentages the page can show.
round(progress) == progress.lo .. progress.hi

\* The messages of the TypeError that response.text() rejects with when
\* json() has read the body: the text differs between platforms.
BodyUsedMessages ==
    {"Failed to execute 'text' on 'Response': body stream already read",
     "Body is unusable: Body has already been read"}

\* What response.json() gives for a response that is not ok: the `error` of
\* the body, "" when the body has none.
JsonErrors == {"An error occurred during conversion.", ""}

\* onClick of the convert button (disabled with no file or while uploading):
\* handleSubmit up to its await of fetch.
HandleSubmit ==
    /\ Len(page.files) > 0
    /\ ~page.isUploading
    /\ Timers(page) < MaxTimers
    /\ page' = IF Len(page.files) = 0
               THEN [page EXCEPT !.error =
                        Message("Please select at least one EPUB file to convert.")]
               ELSE [page EXCEPT !.isUploading = TRUE, !.progress = exactly(10),
                                 !.error = NoError, !.intervals = @ + 1,
                                 !.ticks = 0, !.submit = "fetch",
                                 !.sent = page.files]
    /\ call' = NoCall
    /\ UNCHANGED route

\* A progress interval fires.
ProgressTick ==
    /\ page.intervals > 0
    /\ page.ticks < MaxTicks
    /\ page' = [page EXCEPT !.progress = simulateProgress(@),
                            !.ticks = @ + 1]
    /\ call' = NoCall
    /\ UNCHANGED route

\* fetch resolves: clearInterval, setProgress(95), then response.json() or
\* response.blob() is awaited.
FetchResolved(ok) ==
    /\ page.submit = "fetch"
    /\ page' = [page EXCEPT !.intervals = @ - 1, !.progress = exactly(95),
                            !.submit = IF ok THEN "blob" ELSE "json"]
    /\ call' = NoCall
    /\ UNCHANGED route

\* The catch without the finally block.
catchOnly(p, message) ==
    [p EXCEPT !.error = Message(message), !.submit = "idle", !.sent = <<>>]

\* catch (err) { setError(err.message) } finally { setIsUploading(false) }
catchFinally(p, message) ==
    [p EXCEPT !.error = Message(message), !.isUploading = FALSE,
              !.submit = "idle", !.sent = <<>>]

\* fetch rejects (the network fails): catch and finally.
FetchRejected ==
    /\ page.submit = "fetch"
    /\ page' = catchFinally(page, "Failed to fetch")
    /\ call' = NoCall
    /\ UNCHANGED route

\* response.json() resolves: message = err.error || JSON.stringify(err), thrown.
JsonResolved(error) ==
    /\ page.submit = "json"
    /\ page' = catchFinally(page, IF error # "" THEN error ELSE "{}")
    /\ call' = NoCall
    /\ UNCHANGED route

\* response.json() rejects: response.text() is called on the body that
\* json() has read, and rejects in its turn; that error reaches the catch.
JsonRejected(message) ==
    /\ page.submit = "json"
    /\ page' = catchFinally(page, message)
    /\ call' = NoCall
    /\ UNCHANGED route

\* response.blob() resolves: the download, setProgress(100), setSuccess(true),
\* setTimeout(() => setProgress(0), 2000), and finally.
BlobResolved ==
    /\ page.submit = "blob"
    /\ page' = [page EXCEPT !.progress = exactly(100), !.success = TRUE,
                            !.progressTimeouts = @ + 1, !.isUploading = FALSE,
                            !.submit = "idle", !.sent = <<>>]
    /\ call' = [op |-> "download", download |-> downloadName(page.sent)]
    /\ UNCHANGED route

\* response.blob() rejects: catch and finally.
BlobRejected ==
    /\ page.submit = "blob"
    /\ page' = catchFinally(page, "Failed to fetch")
    /\ call' = NoCall
    /\ UNCHANGED route

\* setTimeout(() => setProgress(0), 2000) fires.
ProgressTimeout ==
    /\ page.progressTimeouts > 0
    /\ page' = [page EXCEPT !.progress = exactly(0), !.progressTimeouts = @ - 1]
    /\ call' = NoCall
    /\ UNCHANGED route

InitPage ==
    /\ uploadedFiles = <<>>
    /\ formMode = "sc-to-tc"
    /\ page = PageInit
    /\ pc = "formData"
    /\ response = [status |-> 0]
    /\ outerZip = NoZip
    /\ task = <<>>
    /\ outputZip = <<>>
    /\ etask = <<>>
    /\ call = NoCall

NextPage ==
    \/ \E selectedFiles \in Selections : HandleFileChange(selectedFiles)
    \/ HandleDragEnter
    \/ HandleDragLeave
    \/ \E selectedFiles \in Selections : HandleDrop(selectedFiles)
    \/ \E index \in 1..MaxFiles : RemoveFile(index)
    \/ ClearAllFiles
    \/ \E mode \in ConversionModes : SetConversionMode(mode)
    \/ ErrorTimeout
    \/ HandleSubmit
    \/ ProgressTick
    \/ \E ok \in BOOLEAN : FetchResolved(ok)
    \/ FetchRejected
    \/ \E error \in JsonErrors : JsonResolved(error)
    \/ \E message \in BodyUsedMessages : JsonRejected(message)
    \/ BlobResolved
    \/ BlobRejected
    \/ ProgressTimeout

SpecPage == InitPage /\ [][NextPage]_vars

\* The promises handleSubmit awaits settle: fetch, response.json() and
\* response.blob() each resolve or reject in the end.
FetchSettles == (\E ok \in BOOLEAN : FetchResolved(ok)) \/ FetchRejected
JsonSettles ==
    \/ \E error \in JsonErrors : JsonResolved(error)
    \/ \E message \in BodyUsedMessages : JsonRejected(message)
BlobSettles == BlobResolved \/ BlobRejected

FairSpecPage ==
    /\ SpecPage
    /\ WF_vars(FetchSettles)
    /\ WF_vars(JsonSettles)
    /\ WF_vars(BlobSettles)

-----------------------------------------------------------------------------
(* The claims. *)

\* The output archive of file i, as generateAsync serializes it.
Output(i) == generateAsync(outputZip[i].files)

\* The name the spec gives the output entry of entry j of file i.
ConvName(i, j) == simplifiedToTaiwan(uploadedFiles[i].entries[j].name)

\* No other entry of file i converts to the name of entry j.
UniqueName(i, j) ==
    \A j2 \in EntriesOf(i) : j2 # j => ConvName(i, j2) # ConvName(i, j)

\* The classification as the spec words it: the substring after the last
\* '.', lowercased, in the target set; a path with no '.' has no extension.
HasDot(path) == \E k \in 1..Len(path) : path[k] = "."

AfterLastDot(path) ==
    LET k == CHOOSE d \in 1..Len(path) :
                 path[d] = "." /\ \A m \in 1..Len(path) : path[m] = "." => m <= d
    IN  SubSeq(path, k + 1, Len(path))

TargetSet == {<<"h","t","m">>, <<"h","t","m","l">>, <<"x","h","t","m","l">>,
              <<"n","c","x">>, <<"o","p","f">>}

SpecClassification(path, dir) ==
    IF dir THEN "Directory"
    ELSE IF HasDot(path) /\ toLowerCase(AfterLastDot(path)) \in TargetSet
         THEN "TextTarget"
         ELSE "BinaryPassthrough"

\* C1: the output archive of a transcoded input archive with K entries has
\* exactly K entries, one under the converted name of each input entry.
C1_ExactlyKEntries ==
    \A i \in Files :
        task[i] = "done" =>
            /\ Len(Output(i)) = Len(uploadedFiles[i].entries)
            /\ \A j \in EntriesOf(i) :
                  \E k \in 1..Len(Output(i)) : Output(i)[k].name = ConvName(i, j)
            /\ \A k \in 1..Len(Output(i)) :
                  \E j \in EntriesOf(i) : Output(i)[k].name = ConvName(i, j)

\* C2: the entries of an output archive stand in the order in which the
\* entries they come from were enumerated from the input archive.
C2_EntryOrderPreserved ==
    \A i \in Files :
        task[i] = "done" =>
            \A a, b \in 1..Len(Output(i)) : \A ja, jb \in EntriesOf(i) :
                ( /\ a < b
                  /\ UniqueName(i, ja) /\ UniqueName(i, jb)
                  /\ Output(i)[a].name = ConvName(i, ja)
                  /\ Output(i)[b].name = ConvName(i, jb) )
                => ja < jb

\* C3: when every entry of the input archive is a file whose extension is
\* outside the target set, every file entry of the output archive holds
\* the bytes of an input entry that converts to its name.
C3_BinaryRoundTrip ==
    \A i \in Files :
        ( /\ task[i] = "done"
          /\ \A j \in EntriesOf(i) :
                SpecClassification(uploadedFiles[i].entries[j].name,
                                   uploadedFiles[i].entries[j].dir) = "BinaryPassthrough" )
        => \A k \in 1..Len(Output(i)) :
              ~Output(i)[k].dir =>
                 \E j \in EntriesOf(i) :
                    /\ Output(i)[k].name = ConvName(i, j)
                    /\ Output(i)[k].data = uploadedFiles[i].entries[j].data

\* The tag stands at position k of text.
TagAt(text, k) ==
    /\ k >= 1
    /\ k + Len(TagCN) - 1 <= Len(text)
    /\ SubSeq(text, k, k + Len(TagCN) - 1) = TagCN

\* C4: patching the text of an .opf entry that holds the zh-CN tag puts
\* the zh-TW tag in the place of its first occurrence and changes nothing
\* else; a text without the tag is returned as it is.
C4_PatchExact ==
    (call.op = "patch" /\ call.done /\ call.ext = s_opf) =>
        IF \E k \in 1..Len(call.text) : TagAt(call.text, k)
        THEN \E k \in 1..Len(call.text) :
                /\ TagAt(call.text, k)
                /\ \A m \in 1..(k - 1) : ~TagAt(call.text, m)
                /\ call.ret = SubSeq(call.text, 1, k - 1) \o TagTW
                              \o SubSeq(call.text, k + Len(TagCN), Len(call.text))
        ELSE call.ret = call.text

\* An .opf text with the tag twice has been patched.
C4_Witness ==
    /\ call.op = "patch" /\ call.done /\ call.ext = s_opf
    /\ Cardinality({k \in 1..Len(call.text) : TagAt(call.text, k)}) = 2
    /\ call.ret # call.text

\* C5: the bundle of a request whose N archives all transcode holds N
\* entries, one for each archive with that archive's output.
C5_OneEntryPerInput ==
    response.status = 200 =>
        /\ Len(response.body) = Len(uploadedFiles)
        /\ \A i \in Files :
              \E k \in 1..Len(response.body) :
                 /\ response.body[k].name = outputFileName(uploadedFiles[i].name)
                 /\ response.body[k].data = Output(i)

\* C6: the entries of the bundle stand in the order of the request's files
\* (stated for requests whose output names differ, so that only the order
\* is in question).
C6_BundleOrder ==
    ( /\ response.status = 200
      /\ \A i1, i2 \in Files :
            i1 # i2 => outputFileName(uploadedFiles[i1].name)
                       # outputFileName(uploadedFiles[i2].name) )
    => /\ Len(response.body) = Len(uploadedFiles)
       /\ \A i \in Files :
             response.body[i].name = outputFileName(uploadedFiles[i].name)

\* A file of the request does not load, or one of its file entries cannot
\* be read.
SomeFailure ==
    \E i \in Files :
        \/ ~uploadedFiles[i].valid
        \/ \E j \in EntriesOf(i) :
              ~uploadedFiles[i].entries[j].dir /\ uploadedFiles[i].entries[j].bad

\* C7: a request with a failing archive or entry never returns a bundle:
\* it ends with status 500 and an error, not with zip bytes.
C7_AtomicBatch ==
    SomeFailure =>
        /\ response.status # 200
        /\ pc = "done" =>
              response = [status |-> 500,
                          error |-> "An error occurred during conversion."]

\* A request has ended in 500 although one of its archives was converted
\* and stands in the outer zip.
C7_Witness ==
    /\ SomeFailure
    /\ pc = "done"
    /\ response.status = 500
    /\ \E i \in Files : task[i] = "done"
    /\ outerZip.files # <<>>

\* C8: a request without files ends with the 400 "No file uploaded."
\* answer; no zip is created for it and no file callback is started.
C8_EmptyBatch ==
    Len(uploadedFiles) = 0 =>
        /\ ~outerZip.created
        /\ pc \in {"formData", "done"}
        /\ response.status \in {0, 400}
        /\ pc = "done" => response = [status |-> 400, error |-> "No file uploaded."]

\* The request without files has been answered.
C8_Witness ==
    /\ call.op = "none"
    /\ Len(uploadedFiles) = 0
    /\ pc = "done"
    /\ response.status = 400

\* C9: the classification is the spec's: Directory for a directory,
\* TextTarget exactly when the lowercased substring after the last '.' is
\* a target extension, BinaryPassthrough otherwise.
C9_Classification ==
    (call.op = "classify" /\ call.done) =>
        call.ret = SpecClassification(call.path, call.dir)

\* C10: a file whose path has no '.' is BinaryPassthrough.
C10_NoDotIsBinary ==
    (call.op = "classify" /\ call.done /\ ~call.dir /\ ~HasDot(call.path)) =>
        call.ret = "BinaryPassthrough"

\* C11: every input entry has its output entry under the converted path,
\* a folder entry for a directory and a file entry for a file.
C11_ConvertedPaths ==
    \A i \in Files :
        task[i] = "done" =>
            \A j \in EntriesOf(i) :
                \E k \in 1..Len(Output(i)) :
                    /\ Output(i)[k].name = ConvName(i, j)
                    /\ Output(i)[k].dir = uploadedFiles[i].entries[j].dir

\* An archive with a directory and with a file whose name the conversion
\* changes has been transcoded.
C11_Witness ==
    \E i \in Files :
        /\ task[i] = "done"
        /\ \E j1, j2 \in EntriesOf(i) :
              /\ uploadedFiles[i].entries[j1].dir
              /\ ~uploadedFiles[i].entries[j2].dir
              /\ ConvName(i, j2) # uploadedFiles[i].entries[j2].name

\* The display name without a final ".epub", in any letter case.
StripEpubSuffix(name) ==
    IF \E n \in 0..Len(name) :
          toLowerCase(SubSeq(name, n + 1, Len(name))) = <<".","e","p","u","b">>
    THEN SubSeq(name, 1, Len(name) - 5)
    ELSE name

\* The display name's own extension, with its '.'.
OriginalExtension(name) ==
    IF HasDot(name) THEN <<".">> \o AfterLastDot(name) ELSE <<>>

\* C12: the bundle names an archive by the converted base name,
\* "-converted" and the extension the input had.
C12_OriginalExtension ==
    response.status = 200 =>
        \A i \in Files :
            \E k \in 1..Len(response.body) :
                response.body[k].name =
                    simplifiedToTaiwan(StripEpubSuffix(uploadedFiles[i].name))
                    \o <<"-","c","o","n","v","e","r","t","e","d">>
                    \o OriginalExtension(uploadedFiles[i].name)

\* OpenCC's conversion from Traditional to Simplified, on the characters
\* of the model.
traditionalToSimplified(s) ==
    [k \in 1..Len(s) |->
        CASE s[k] = "u66F8" -> "u4E66"
          [] s[k] = "u570B" -> "u56FD"
          [] OTHER -> s[k]]

\* The conversion the selected mode asks for.
ModeConvert(mode, text) ==
    IF mode = "tc-to-sc" THEN traditionalToSimplified(text)
    ELSE simplifiedToTaiwan(text)

\* C13: the text of a text entry is converted in the direction of the
\* mode sent with the request.
C13_ModeFollowed ==
    \A i \in Files :
        task[i] = "done" =>
            \A j \in EntriesOf(i) :
                ( /\ UniqueName(i, j)
                  /\ SpecClassification(uploadedFiles[i].entries[j].name,
                                        uploadedFiles[i].entries[j].dir) = "TextTarget" )
                => \E k \in 1..Len(Output(i)) :
                      /\ ~Output(i)[k].dir
                      /\ Output(i)[k].data =
                            utf8encode(
                               LET t == ModeConvert(formMode,
                                            utf8decode(uploadedFiles[i].entries[j].data))
                               IN  IF toLowerCase(AfterLastDot(uploadedFiles[i].entries[j].name))
                                      = <<"o","p","f">>
                                   THEN replace(t, TagCN, TagTW)
                                   ELSE t)

\* Every file of the request loads.
AllValid == \A i \in Files : uploadedFiles[i].valid

\* C14: the failure of an entry is reported with the path of an entry that
\* failed.
C14_EntryErrorCarriesPath ==
    (pc = "done" /\ response.status = 500 /\ AllValid) =>
        /\ "path" \in DOMAIN response
        /\ \E i \in Files : \E j \in EntriesOf(i) :
              /\ etask[i][j] = "rejected"
              /\ response.path = uploadedFiles[i].entries[j].name

\* C15: while an output archive is serialized, and after, every entry of
\* its input archive has been processed and stands in the output archive.
C15_SerializeAfterEntries ==
    \A i \in Files :
        task[i] \in {"generateAsync", "done"} =>
            \A j \in EntriesOf(i) :
                /\ etask[i][j] = "done"
                /\ hasFile(outputZip[i].files, ConvName(i, j))

\* An archive with two file entries or more is being serialized.
C15_Witness ==
    \E i \in Files :
        /\ task[i] = "generateAsync"
        /\ Cardinality({j \in EntriesOf(i) : ~uploadedFiles[i].entries[j].dir}) >= 2

\* C16: a text entry is written as the conversion of its decoded text,
\* with the language tag patched when its extension is opf and only then.
C16_TextContent ==
    \A i \in Files :
        task[i] = "done" =>
            \A j \in EntriesOf(i) :
                ( /\ UniqueName(i, j)
                  /\ SpecClassification(uploadedFiles[i].entries[j].name,
                                        uploadedFiles[i].entries[j].dir) = "TextTarget" )
                => \E k \in 1..Len(Output(i)) :
                      /\ Output(i)[k].name = ConvName(i, j)
                      /\ ~Output(i)[k].dir
                      /\ Output(i)[k].data =
                            utf8encode(
                               LET t == simplifiedToTaiwan(
                                            utf8decode(uploadedFiles[i].entries[j].data))
                               IN  IF toLowerCase(AfterLastDot(uploadedFiles[i].entries[j].name))
                                      = <<"o","p","f">>
                                   THEN replace(t, TagCN, TagTW)
                                   ELSE t)

\* An .opf entry has been patched, and an .HTML entry holding the zh-CN tag
\* has been written with the tag still in it.
C16_Witness ==
    \E i \in Files :
        /\ task[i] = "done"
        /\ \E j1, j2 \in EntriesOf(i) : \E k1, k2 \in 1..Len(Output(i)) :
              /\ uploadedFiles[i].entries[j1] = E_html
              /\ Output(i)[k1].name = ConvName(i, j1)
              /\ indexOf(Output(i)[k1].data, TagCN) > 0
              /\ uploadedFiles[i].entries[j2] = E_opf
              /\ Output(i)[k2].name = ConvName(i, j2)
              /\ indexOf(Output(i)[k2].data, TagTW) > 0

\* The archive and the bundle a run builds that handles the entries and
\* the files one after the other, in their order.
RECURSIVE WriteInOrder(_, _)
WriteInOrder(files, entries) ==
    IF entries = <<>> THEN files
    ELSE WriteInOrder(
            IF Head(entries).dir THEN files ELSE writeEntry(files, Head(entries)),
            Tail(entries))

InOrderOutput(i) ==
    generateAsync(WriteInOrder(startEntries(<<>>, uploadedFiles[i].entries),
                               uploadedFiles[i].entries))

RECURSIVE BundleInOrder(_, _)
BundleInOrder(outer, i) ==
    IF i > Len(uploadedFiles) THEN outer
    ELSE BundleInOrder(
            file(outer, outputFileName(uploadedFiles[i].name), InOrderOutput(i), TRUE),
            i + 1)

\* A bundle as the mapping from archive name to the mapping from entry
\* name to content.
BundleMap(body) ==
    {[name |-> body[k].name,
      entries |-> {body[k].data[m] : m \in 1..Len(body[k].data)}] : k \in 1..Len(body)}

\* C19: the content of the returned bundle is the same for every
\* completion order, that is, the content the in-order run gives.
C19_SameContent ==
    response.status = 200 =>
        BundleMap(response.body) = BundleMap(generateAsync(BundleInOrder(<<>>, 1)))

\* C20: for one submitted file the blob the page saves is the output
\* archive of that file: it has the entries of the output archive, by name
\* and kind, in their order.
C20_SingleIsEpub ==
    (pc = "done" /\ response.status = 200 /\ Len(uploadedFiles) = 1) =>
        /\ Len(blob(response)) = Len(Output(1))
        /\ \A k \in 1..Len(blob(response)) :
              /\ blob(response)[k].name = Output(1)[k].name
              /\ blob(response)[k].dir = Output(1)[k].dir

\* The files of a selection whose name does not end in '.epub', in any
\* letter case.
NotEpub(selectedFiles) ==
    {k \in 1..Len(selectedFiles) :
        LET name == selectedFiles[k]
        IN  ~ ( /\ Len(name) >= 5
                /\ name[Len(name) - 4] = "."
                /\ name[Len(name) - 3] \in {"e", "E"}
                /\ name[Len(name) - 2] \in {"p", "P"}
                /\ name[Len(name) - 1] \in {"u", "U"}
                /\ name[Len(name)] \in {"b", "B"} )}

\* C18: every file of the list has a name ending in '.epub' in any letter
\* case; and right after a selection or a drop of files of which n > 0 have
\* another name, the error is the rejection message for n files.
C18_OnlyEpubListed ==
    /\ \A k \in 1..Len(page.files) : NotEpub(<<page.files[k]>>) = {}
    /\ (call.op = "addFiles" /\ NotEpub(call.selectedFiles) # {}) =>
          page.error = Rejected(Cardinality(NotEpub(call.selectedFiles)))

\* While uploading, the list holds a file with an upper-case .EPUB that a
\* drop added, and the rejection message is set.
C18_Witness ==
    /\ call = AddCall(<<N_txt, N_t>>)
    /\ page.isUploading
    /\ Len(page.files) > Len(page.sent)
    /\ page.files[Len(page.files)] = N_t
    /\ page.error = Rejected(1)

\* C21: when handleSubmit is not running the uploading flag is false, and
\* every state with the flag set leads to a state with the flag cleared.
C21_UploadingClears ==
    /\ [](page.submit = "idle" => ~page.isUploading)
    /\ (page.isUploading ~> ~page.isUploading)

\* A submit has ended in each way: the last one by its catch with the flag
\* cleared, while the progress of an earlier one that succeeded stands.
C21_Witness ==
    /\ page.submit = "idle"
    /\ ~page.isUploading
    /\ page.error = Message("Failed to fetch")
    /\ page.success

\* C22: when handleSubmit is not running no progress interval is active,
\* and at most one is active at any time.
C22_IntervalCleared ==
    /\ page.submit = "idle" => page.intervals = 0
    /\ page.intervals <= 1

\* C23: the success flag and an error message are never set together.
C23_NotSuccessAndError == ~ (page.success /\ page.error.kind # "null")

====
